---- MODULE Spec2Model ----
(***************************************************************************)
(* A model of the WhatsApp chat viewer backend (src/main.py, src/db.py):   *)
(* the MongoDB collection of message documents, the startup bulk load of   *)
(* webhook payloads (process_payloads), the live submission endpoint       *)
(* (send_message) and the WebSocket ConnectionManager.                     *)
(***************************************************************************)
EXTENDS Integers, Sequences, FiniteSets, TLC

\* ------------------------------------------------------------------ bounds
MaxTs == 2          \* timestamps are 1..MaxTs (their order is the string order)
MaxSubmits == 2     \* live submissions accepted over the life of the store
MaxConns == 2       \* WebSocket connection instances ever created
MaxList == 5        \* length of active_connections in the class-level model

\* ------------------------------------------------------------ value domains
\* A key that a dict does not hold.
Absent == "absent"
AbsentId == <<"absent", 0>>
\* x.get("timestamp", "") reads a missing timestamp as "", below every string.
AbsentTs == 0

Phones == {"A", "B"}
Timestamps == 1..MaxTs
Statuses == {"delivered", "read"}
\* External (webhook) message ids, and the ids uuid4 generates: uuid4 never
\* repeats a value and never yields an id an external system chose.
WamIds == {<<"wamid", 1>>, <<"wamid", 2>>}
uuid4(n) == <<"uuid", n>>
Connections == 1..MaxConns

\* Messages a caller may submit, and str.strip() on them.
Messages == {"hi", "   ", ""}

\* A mutant of strip: the message is tested as it came.
strip_nothing(s) == s

strip(s) == CASE s = "   " -> "" [] OTHER -> s

\* A message-creation event of a payload (a dict; a key may be missing).
MsgEvents ==
    [id : WamIds \cup {AbsentId}, from : Phones, to : {Absent, "B"},
     timestamp : Timestamps, text : {"hi"}, status : {Absent}]

\* A status event of a payload.
StatusEvents ==
    [id : WamIds \cup {AbsentId}, status : Statuses \cup {Absent},
     timestamp : Timestamps \cup {AbsentTs}]

\* value.metadata.display_phone_number of a change (None when missing).
BusinessNumbers == {Absent, "A"}

\* ------------------------------------------------------------------- state
VARIABLES
    store,      \* the collection: documents in natural (insertion) order
    phase,      \* "boot" | "loading" | "serving" | "crashed"
    cur,        \* the change process_payloads is iterating over
    active,     \* manager.active_connections (a list)
    conn,       \* per connection instance: "new" | "open" | "stalled" | "closed"
    req,        \* the send_message handler in flight
    wire,       \* send_text calls that have not completed yet
    inbox,      \* what each observer has received, in order
    bc,         \* bookkeeping of the broadcast in flight
    api,        \* last direct call of a ConnectionManager method
    out,        \* the last line process_payloads printed
    resp        \* the last response of GET /conversations/{phone}

vars == <<store, phase, cur, active, conn, req, wire, inbox, bc, api, out, resp>>

NoChange == [biz |-> Absent, messages |-> FALSE, statuses |-> FALSE]
IdleReq == [pc |-> "idle", data |-> <<>>, pos |-> 0, message |-> Absent]
NoBroadcast ==
    [tried |-> <<>>, failed |-> {}, stable |-> {}, mutated |-> FALSE, atReturn |-> <<>>,
     closed |-> {}]
NoCall == [op |-> "none", conn |-> 0, raised |-> FALSE, before |-> <<>>]
NoResp == [phone |-> Absent, code |-> 0, conversation |-> <<>>]

Elems(s) == {s[i] : i \in 1..Len(s)}

\* ------------------------------------------------------------ the collection
\* The fields a $set document carries; Absent marks a key it does not hold.
NoFields ==
    [id |-> AbsentId, from |-> Absent, to |-> Absent, timestamp |-> AbsentTs,
     text |-> Absent, status |-> Absent]

\* {"$set": fields} on one document: present keys overwrite, the rest stay.
SetFields(doc, f) ==
    [oid |-> doc.oid,
     id |-> IF f.id # AbsentId THEN f.id ELSE doc.id,
     from |-> IF f.from # Absent THEN f.from ELSE doc.from,
     to |-> IF f.to # Absent THEN f.to ELSE doc.to,
     timestamp |-> IF f.timestamp # AbsentTs THEN f.timestamp ELSE doc.timestamp,
     text |-> IF f.text # Absent THEN f.text ELSE doc.text,
     status |-> IF f.status # Absent THEN f.status ELSE doc.status]

\* The _id MongoDB gives an inserted document (nothing is ever deleted).
ObjectId(s) == Len(s) + 1

\* The document an upsert inserts: the filter's equality field and a new _id.
NewDoc(s, id) ==
    [oid |-> ObjectId(s), id |-> id, from |-> Absent, to |-> Absent,
     timestamp |-> AbsentTs, text |-> Absent, status |-> Absent]

\* A mutant of Matches: the filter names a key no document holds an id under.
MatchesWrongKey(s, id) == {i \in 1..Len(s) : s[i].text = id[1]}

\* Positions of the documents matching {"id": id}.
Matches(s, id) == {i \in 1..Len(s) : s[i].id = id}

FirstMatch(s, id) == CHOOSE i \in Matches(s, id) : \A j \in Matches(s, id) : i <= j

\* A mutant of update_one: upsert that inserts without looking for a match.
update_one_insert(s, id, f) == Append(s, SetFields(NewDoc(s, id), f))

\* A mutant of update_one: the matched document is replaced, not merged.
update_one_replace(s, id, f) ==
    IF Matches(s, id) = {}
    THEN Append(s, SetFields(NewDoc(s, id), f))
    ELSE [s EXCEPT ![FirstMatch(s, id)] = SetFields(NewDoc(s, id), f) ]

\* collection.update_one({"id": id}, {"$set": f}, upsert=True)
update_one(s, id, f) ==
    IF Matches(s, id) = {}
    THEN Append(s, SetFields(NewDoc(s, id), f))
    ELSE [s EXCEPT ![FirstMatch(s, id)] = SetFields(@, f)]

\* collection.insert_one(doc): always a new document.
insert_one(s, f) == Append(s, SetFields(NewDoc(s, f.id), f))

\* What find_one returns when no document matches.
None ==
    [oid |-> 0, id |-> AbsentId, from |-> Absent, to |-> Absent,
     timestamp |-> AbsentTs, text |-> Absent, status |-> Absent]

\* collection.find_one({"_id": oid})
find_one(s, oid) ==
    IF \E d \in Elems(s) : d.oid = oid
    THEN CHOOSE d \in Elems(s) : d.oid = oid
    ELSE None

\* collection.find({"$or": [{"from": phone}, {"to": phone}]}), in natural order.
find(s, phone) ==
    LET F[n \in 0..Len(s)] ==
            IF n = 0 THEN <<>>
            ELSE IF s[n].from = phone \/ s[n].to = phone
                 THEN Append(F[n - 1], s[n])
                 ELSE F[n - 1]
    IN F[Len(s)]

\* ------------------------------------------------------- process_payloads
\* A mutant of Backfill: the default replaces the event's own "to".
BackfillAlways(msg, biz) ==
    IF biz # Absent THEN [msg EXCEPT !.to = biz] ELSE msg

\* if "to" not in msg and business_number: msg["to"] = business_number
Backfill(msg, biz) ==
    IF msg.to = Absent /\ biz # Absent THEN [msg EXCEPT !.to = biz] ELSE msg

\* The $set document of a status event.
StatusFields(st) == [NoFields EXCEPT !.status = st.status, !.timestamp = st.timestamp]

\* A status event whose subscripts status["id"], ["status"], ["timestamp"] all exist.
WellFormedStatus(st) ==
    st.id # AbsentId /\ st.status # Absent /\ st.timestamp # AbsentTs

\* One iteration of "for msg in value['messages']" on the store.
UpsertMsg(s, msg, biz) == update_one(s, msg.id, Backfill(msg, biz))

\* One iteration of "for status in value['statuses']" on the store.
UpsertSt(s, st) == update_one(s, st.id, StatusFields(st))

\* A mutant of StoreHasData: the check is never true.
StoreHasDataNever(s) == FALSE

\* collection.count_documents({}) > 0
StoreHasData(s) == Len(s) > 0

StartupSkip ==
    /\ phase = "boot"
    /\ StoreHasData(store)
    /\ phase' = "serving"
    /\ out' = "skipping load"
    /\ UNCHANGED <<store, cur, active, conn, req, wire, inbox, bc, api, resp>>

StartupBegin ==
    /\ phase = "boot"
    /\ ~StoreHasData(store)
    /\ phase' = "loading"
    /\ cur' = NoChange
    /\ out' = "loading"
    /\ UNCHANGED <<store, active, conn, req, wire, inbox, bc, api, resp>>

\* json.load raises on a file that is not JSON: the startup handler raises.
BadFile ==
    /\ phase = "loading"
    /\ phase' = "crashed"
    /\ cur' = NoChange
    /\ UNCHANGED <<store, active, conn, req, wire, inbox, bc, api, out, resp>>

\* The loop reaches the next change of a payload file.
NextChange(biz, hasMessages, hasStatuses) ==
    /\ phase = "loading"
    /\ cur' = [biz |-> biz, messages |-> hasMessages, statuses |-> hasStatuses]
    /\ UNCHANGED <<store, phase, active, conn, req, wire, inbox, bc, api, out, resp>>

UpsertMessage(msg) ==
    /\ phase = "loading"
    /\ cur.messages
    /\ IF msg.id = AbsentId
       THEN phase' = "crashed" /\ cur' = NoChange /\ store' = store
       ELSE store' = UpsertMsg(store, msg, cur.biz) /\ UNCHANGED <<phase, cur>>
    /\ UNCHANGED <<active, conn, req, wire, inbox, bc, api, out, resp>>

\* A mutant of StatusesBranch: a plain "if", taken whatever else the change has.
StatusesBranchIf(c) == c.statuses

\* elif "statuses" in value: reached only when "messages" is not in value.
StatusesBranch(c) == ~c.messages /\ c.statuses

UpsertStatus(st) ==
    /\ phase = "loading"
    /\ StatusesBranch(cur)
    /\ IF ~WellFormedStatus(st)
       THEN phase' = "crashed" /\ cur' = NoChange /\ store' = store
       ELSE store' = UpsertSt(store, st) /\ UNCHANGED <<phase, cur>>
    /\ UNCHANGED <<active, conn, req, wire, inbox, bc, api, out, resp>>

FinishLoad ==
    /\ phase = "loading"
    /\ phase' = "serving"
    /\ cur' = NoChange
    /\ out' = "loading complete"
    /\ UNCHANGED <<store, active, conn, req, wire, inbox, bc, api, resp>>

\* ------------------------------------------------------- ConnectionManager
\* A mutant of list_remove: nothing is removed.
list_remove_nothing(l, x) == [list |-> l, raised |-> FALSE]

\* list.remove(x): drops the first occurrence; ValueError when there is none.
list_remove(l, x) ==
    IF x \in Elems(l)
    THEN LET i == CHOOSE k \in 1..Len(l) : l[k] = x /\ \A j \in 1..(k - 1) : l[j] # x
         IN [list |-> SubSeq(l, 1, i - 1) \o SubSeq(l, i + 1, Len(l)), raised |-> FALSE]
    ELSE [list |-> l, raised |-> TRUE]

Broadcasting == req.pc = "broadcast"

\* websocket_endpoint up to its receive loop: accept, then append.
Connect(c) ==
    /\ phase = "serving"
    /\ conn[c] = "new"
    /\ conn' = [conn EXCEPT ![c] = "open"]
    /\ active' = Append(active, c)
    /\ bc' = IF Broadcasting THEN [bc EXCEPT !.mutated = TRUE] ELSE bc
    /\ UNCHANGED <<store, phase, cur, req, wire, inbox, api, out, resp>>

\* receive_text raises WebSocketDisconnect: the handler calls manager.disconnect.
Disconnect(c) ==
    /\ phase = "serving"
    /\ conn[c] = "open"
    /\ conn' = [conn EXCEPT ![c] = "closed"]
    /\ active' = list_remove(active, c).list
    /\ bc' = IF Broadcasting
             THEN [bc EXCEPT !.mutated = TRUE, !.stable = @ \ {c}]
             ELSE bc
    /\ UNCHANGED <<store, phase, cur, req, wire, inbox, api, out, resp>>

\* The observer stops reading and its transport stops draining: from now on a
\* send_text to it neither completes nor raises.
Stall(c) ==
    /\ phase = "serving"
    /\ conn[c] = "open"
    /\ conn' = [conn EXCEPT ![c] = "stalled"]
    /\ UNCHANGED <<store, phase, cur, active, req, wire, inbox, bc, api, out, resp>>

\* ------------------------------------------------------------ send_message
\* The document send_message builds for a request.
new_msg(s, from, to, message, now) ==
    [id |-> uuid4(Cardinality({i \in 1..Len(s) : s[i].id[1] = "uuid"}) + 1),
     from |-> from, to |-> to, timestamp |-> now, text |-> message,
     status |-> "sent"]

Submitted(s) == Cardinality({i \in 1..Len(s) : s[i].id[1] = "uuid"})

\* A mutant of StoreWrite: the write is not done before the broadcast.
StoreWriteSkipped(s, doc) == s

\* inserted = collection.insert_one(new_msg), before anything is broadcast.
StoreWrite(s, doc) == insert_one(s, doc)

\* The handler up to its first suspension: validate, insert, read back, and
\* enter manager.broadcast (json.dumps, the for loop not yet started).
SendMessage(from, to, message, now) ==
    /\ phase = "serving"
    /\ req.pc = "idle"
    /\ Submitted(store) < MaxSubmits
    /\ IF strip(message) = ""
       THEN /\ req' = [IdleReq EXCEPT !.pc = "rejected", !.message = message]
            /\ UNCHANGED <<store, bc>>
       ELSE LET doc == new_msg(store, from, to, message, now)
                oid == ObjectId(store)
            IN /\ store' = StoreWrite(store, doc)
               /\ req' = [pc |-> "broadcast",
                          data |-> <<find_one(StoreWrite(store, doc), oid)>>,
                          pos |-> 1, message |-> message]
               /\ bc' = [NoBroadcast EXCEPT
                             !.stable = Elems(active),
                             !.closed = {c \in Connections : conn[c] = "closed"}]
    /\ UNCHANGED <<phase, cur, active, conn, wire, inbox, api, out, resp>>

\* A mutant of Awaited: send_text is started and not awaited.
NotAwaited(w) == TRUE

\* "await connection.send_text(data)": the loop goes on when the send is over.
Awaited(w) == w = {}

\* A mutant of OnSendError: the exception leaves broadcast.
OnSendErrorRaise == "raise"

\* "except: pass"
OnSendError == "pass"

\* for connection in self.active_connections: the list iterator yields the item
\* at its index, which then moves on by one; send_text is called and suspends.
BroadcastNext ==
    /\ Broadcasting
    /\ Awaited(wire)
    /\ req.pos <= Len(active)
    /\ wire' = wire \cup {[conn |-> active[req.pos], data |-> req.data[1]]}
    /\ req' = [req EXCEPT !.pos = @ + 1]
    /\ bc' = [bc EXCEPT !.tried = Append(@, active[req.pos])]
    /\ UNCHANGED <<store, phase, cur, active, conn, inbox, api, out, resp>>

\* The send completes: the observer has the event.
SendOk(w) ==
    /\ w \in wire
    /\ conn[w.conn] = "open"
    /\ wire' = wire \ {w}
    /\ inbox' = [inbox EXCEPT ![w.conn] = Append(@, w.data)]
    /\ UNCHANGED <<store, phase, cur, active, conn, req, bc, api, out, resp>>

\* The send raises.
SendFail(w) ==
    /\ w \in wire
    /\ conn[w.conn] # "stalled"
    /\ wire' = wire \ {w}
    /\ bc' = [bc EXCEPT !.failed = @ \cup {w.conn}]
    /\ req' = IF OnSendError = "pass" THEN req ELSE [req EXCEPT !.pc = "error"]
    /\ UNCHANGED <<store, phase, cur, active, conn, inbox, api, out, resp>>

\* The iterator is exhausted: broadcast returns, the handler returns 200.
BroadcastReturn ==
    /\ Broadcasting
    /\ Awaited(wire)
    /\ req.pos > Len(active)
    /\ req' = [req EXCEPT !.pc = "returned"]
    /\ bc' = [bc EXCEPT !.atReturn = active]
    /\ UNCHANGED <<store, phase, cur, active, conn, wire, inbox, api, out, resp>>

\* The response (200, 400 or 500) is out; the next request may come.
Respond ==
    /\ req.pc \in {"returned", "rejected", "error"}
    /\ req' = IdleReq
    /\ bc' = NoBroadcast
    /\ UNCHANGED <<store, phase, cur, active, conn, wire, inbox, api, out, resp>>

\* --------------------------------------------------------- get_conversation
\* The phone numbers a conversation is asked for; nobody wrote to or from "C".
QueryPhones == {"A", "B", "C"}

\* key=lambda x: x.get("timestamp", ""): a missing timestamp is the empty key.
sort_key(d) == d.timestamp

\* A mutant of list_sort: the list is returned in the order find gave it.
list_sort_nothing(l) == l

\* list.sort(key=...): stable, ascending by key.
list_sort(l) ==
    LET S[n \in 0..Len(l)] ==
            IF n = 0 THEN <<>>
            ELSE LET q == S[n - 1]
                     k == Cardinality({i \in 1..Len(q) : sort_key(q[i]) <= sort_key(l[n])})
                 IN SubSeq(q, 1, k) \o <<l[n]>> \o SubSeq(q, k + 1, Len(q))
    IN S[Len(l)]

\* The response of GET /conversations/{phone} on store s.
get_conversation(s, phone) ==
    LET data == find(s, phone)
    IN IF data = <<>>
       THEN [phone |-> phone, code |-> 404, conversation |-> <<>>]
       ELSE [phone |-> phone, code |-> 200, conversation |-> list_sort(data)]

GetConversation(phone) ==
    /\ phase = "serving"
    /\ resp' = get_conversation(store, phone)
    /\ UNCHANGED <<store, phase, cur, active, conn, req, wire, inbox, bc, api, out>>

\* The process is stopped and started again: the collection is what remains.
Restart ==
    /\ phase \in {"serving", "crashed"}
    /\ phase' = "boot"
    /\ cur' = NoChange
    /\ active' = <<>>
    /\ conn' = [c \in Connections |->
                    IF conn[c] \in {"open", "stalled"} THEN "closed" ELSE conn[c]]
    /\ req' = IdleReq
    /\ wire' = {}
    /\ bc' = NoBroadcast
    /\ out' = ""
    /\ resp' = NoResp
    /\ UNCHANGED <<store, inbox, api>>

\* ------------------------------------- ConnectionManager, called directly
\* manager.connect(ws) with the handshake accepted.
ApiConnect(c) ==
    /\ Len(active) < MaxList
    /\ active' = Append(active, c)
    /\ api' = [op |-> "connect", conn |-> c, raised |-> FALSE, before |-> active]
    /\ UNCHANGED <<store, phase, cur, conn, req, wire, inbox, bc, out, resp>>

\* manager.disconnect(ws)
ApiDisconnect(c) ==
    /\ active' = list_remove(active, c).list
    /\ api' = [op |-> "disconnect", conn |-> c,
               raised |-> list_remove(active, c).raised, before |-> active]
    /\ UNCHANGED <<store, phase, cur, conn, req, wire, inbox, bc, out, resp>>

Init ==
    /\ store = <<>>
    /\ phase = "boot"
    /\ cur = NoChange
    /\ active = <<>>
    /\ conn = [c \in Connections |-> "new"]
    /\ req = IdleReq
    /\ wire = {}
    /\ inbox = [c \in Connections |-> <<>>]
    /\ bc = NoBroadcast
    /\ api = NoCall
    /\ out = ""
    /\ resp = NoResp

\* The ingestion path with every payload shape, over restarts of the process.
NextStore ==
    \/ StartupSkip
    \/ StartupBegin
    \/ BadFile
    \/ \E biz \in BusinessNumbers, m \in BOOLEAN, s \in BOOLEAN : NextChange(biz, m, s)
    \/ \E msg \in MsgEvents : UpsertMessage(msg)
    \/ \E st \in StatusEvents : UpsertStatus(st)
    \/ FinishLoad
    \/ Restart

SpecStore == Init /\ [][NextStore]_vars

\* The whole application with one observer, on payloads of one sender and one
\* recipient.
SmallMsgEvents == {m \in MsgEvents : m.id # AbsentId /\ m.from = "A" /\ m.to = "B"}
SmallStatusEvents == {st \in StatusEvents : WellFormedStatus(st) /\ st.status = "delivered"}


Next ==
    \/ StartupSkip
    \/ StartupBegin
    \/ \E m \in BOOLEAN : NextChange(Absent, m, ~m)
    \/ \E msg \in SmallMsgEvents : UpsertMessage(msg)
    \/ \E st \in SmallStatusEvents : UpsertStatus(st)
    \/ FinishLoad
    \/ Connect(1)
    \/ Disconnect(1)
    \/ \E m \in {"hi", "   "} : SendMessage("A", "B", m, MaxTs)
    \/ BroadcastNext
    \/ \E w \in wire : SendOk(w)
    \/ \E w \in wire : SendFail(w)
    \/ BroadcastReturn
    \/ Respond
    \/ Restart

Spec == Init /\ [][Next]_vars

\* The serving application with an empty payload folder: observers come and
\* go while messages are submitted.
NextHub ==
    \/ StartupBegin
    \/ FinishLoad
    \/ \E c \in Connections : Connect(c)
    \/ \E c \in Connections : Disconnect(c)
    \/ \E c \in Connections : Stall(c)
    \/ \E m \in Messages : SendMessage("A", "B", m, MaxTs)
    \/ BroadcastNext
    \/ \E w \in wire : SendOk(w)
    \/ \E w \in wire : SendFail(w)
    \/ BroadcastReturn
    \/ Respond

SpecHub == Init /\ [][NextHub]_vars

\* Message-creation events that carry no timestamp.
UntimedMsgEvents == {[m EXCEPT !.timestamp = AbsentTs] : m \in SmallMsgEvents}

\* Conversations are queried while payloads have been loaded and messages are
\* submitted, with no observer connected.
NextQuery ==
    \/ StartupBegin
    \/ \E m \in BOOLEAN : NextChange(Absent, m, ~m)
    \/ \E msg \in SmallMsgEvents \cup UntimedMsgEvents : UpsertMessage(msg)
    \/ \E st \in SmallStatusEvents : UpsertStatus(st)
    \/ FinishLoad
    \/ \E to \in {"B", "C"} : SendMessage("A", to, "hi", MaxTs)
    \/ BroadcastReturn
    \/ Respond
    \/ \E p \in QueryPhones : GetConversation(p)

SpecQuery == Init /\ [][NextQuery]_vars

\* The ConnectionManager alone, its methods called in any order.
NextApi ==
    \/ \E c \in Connections : ApiConnect(c)
    \/ \E c \in Connections : ApiDisconnect(c)

SpecApi == Init /\ [][NextApi]_vars

\* ------------------------------------------------------------------ claims
Count(seq, x) == Cardinality({k \in 1..Len(seq) : seq[k] = x})

\* C1: after any sequence of message-creation events, status events and live
\* submissions the store holds at most one document per external id.
C1_OneRecordPerId ==
    \A i, j \in 1..Len(store) : store[i].id = store[j].id => i = j

\* A message event and a status event of one id have merged into one document,
\* and a live submission has added its own.
C1_Witness ==
    /\ \E d \in Elems(store) :
           d.id \in WamIds /\ d.text # Absent /\ d.status = "delivered"
    /\ \E d \in Elems(store) : d.id[1] = "uuid"

\* C2: upserting a message-creation event a second time leaves the store as
\* the first upsert left it, for every store and every event with an id.
C2_UpsertIdempotent ==
    \A msg \in MsgEvents, biz \in BusinessNumbers :
        msg.id # AbsentId =>
            UpsertMsg(UpsertMsg(store, msg, biz), msg, biz) = UpsertMsg(store, msg, biz)

\* The loader is in a messages change, the event's document is in the store as
\* the event left it, beside another document, and the event is due again.
C2_Witness ==
    /\ phase = "loading"
    /\ cur.messages
    /\ Len(store) = 2
    /\ \E msg \in MsgEvents :
           /\ Matches(store, msg.id) = {1}
           /\ store[1].status # Absent
           /\ store = UpsertMsg(store, msg, cur.biz)

\* C3: a status event on an id whose document has from, to and text changes
\* that document's status and timestamp to the event's and nothing else in
\* the store.
C3_StatusKeepsFields ==
    \A st \in StatusEvents :
        (WellFormedStatus(st) /\ Matches(store, st.id) # {}) =>
            LET i == FirstMatch(store, st.id)
                d == store[i]
            IN (d.from # Absent /\ d.to # Absent /\ d.text # Absent) =>
                   UpsertSt(store, st) =
                       [store EXCEPT ![i] = [d EXCEPT !.status = st.status,
                                                      !.timestamp = st.timestamp]]

\* The loader is in a statuses change and a document with from, to and text
\* carries a status.
C3_Witness ==
    /\ phase = "loading"
    /\ cur.statuses /\ ~cur.messages
    /\ \E d \in Elems(store) :
           d.from # Absent /\ d.to # Absent /\ d.text # Absent /\ d.status # Absent

\* C4: for one id, a status event and a message-creation event applied in
\* either order leave the same store, timestamp included.
C4_EitherOrderSameRecord ==
    \A msg \in MsgEvents, st \in StatusEvents, biz \in BusinessNumbers :
        (msg.id # AbsentId /\ WellFormedStatus(st) /\ st.id = msg.id) =>
            UpsertMsg(UpsertSt(store, st), msg, biz) = UpsertSt(UpsertMsg(store, msg, biz), st)

\* C5: whatever has been handed to send_text or has reached an observer is a
\* document of the store, which a query by its sender or its recipient finds.
C5_StoredBeforeBroadcast ==
    LET Sent == {w.data : w \in wire}
                    \cup UNION {Elems(inbox[c]) : c \in Connections}
    IN \A d \in Sent :
           /\ d \in Elems(store)
           /\ d \in Elems(find(store, d.from))
           /\ d \in Elems(find(store, d.to))

\* An observer has one event and the next one is on its way.
C5_Witness ==
    /\ wire # {}
    /\ \E c \in Connections : Len(inbox[c]) >= 1

\* C6: a failed send never leaves broadcast as an error and leaves the loop
\* where a completed send leaves it (same position, same list); a broadcast
\* during which no connection came or went has attempted each active
\* connection once, in list order, whichever sends failed.
C6_FailureIsolated ==
    /\ [](req.pc # "error")
    /\ []((req.pc = "returned" /\ ~bc.mutated) => bc.tried = bc.atReturn)
    /\ [][(bc'.failed \ bc.failed) # {} => (req' = req /\ active' = active)]_vars

\* The send to the first of two connections failed and the second has the event.
C6_Witness ==
    /\ req.pc = "returned"
    /\ ~bc.mutated
    /\ Len(bc.atReturn) = 2
    /\ bc.failed = {bc.atReturn[1]}
    /\ LET c == bc.atReturn[2]
       IN Len(inbox[c]) >= 1 /\ inbox[c][Len(inbox[c])] = req.data[1]

\* C7: when broadcast returns, a connection whose send failed in it is no
\* longer in the active list.
C7_FailedConnectionRemoved ==
    req.pc = "returned" => \A c \in bc.failed : c \notin Elems(bc.atReturn)

\* C8: disconnect of a connection that is not in the list raises nothing and
\* leaves the list as it was.
C8_DisconnectAbsentIsNoop ==
    (api.op = "disconnect" /\ api.conn \notin Elems(api.before)) =>
        (~api.raised /\ active = api.before)

\* C9: when broadcast has returned, every connection that was in the list from
\* its start to its end has been attempted exactly once.
C9_EveryStableConnectionOnce ==
    req.pc = "returned" => \A c \in bc.stable : Count(bc.tried, c) = 1

\* C10: an observer receives the events in the order their broadcasts were
\* invoked, which is the order of the documents' insertion.
C10_DeliveredInOrder ==
    \A c \in Connections : \A j, k \in 1..Len(inbox[c]) :
        j < k => inbox[c][j].oid < inbox[c][k].oid

\* A connected observer has received two events.
C10_Witness ==
    \E c \in Connections : conn[c] = "open" /\ Len(inbox[c]) >= 2

\* C11: a send that never completes does not block the broadcast: while a send
\* to a stalled observer is pending, the loop can go on to the next connection
\* or return.
C11_StalledSendDoesNotBlock ==
    (Broadcasting /\ \E w \in wire : conn[w.conn] = "stalled") =>
        ENABLED (BroadcastNext \/ BroadcastReturn)

\* C12: a disconnected connection is not in the active list, stays
\* disconnected, and no broadcast that started after its disconnect attempts
\* delivery to it.
C12_DisconnectedForGood ==
    /\ [](\A c \in Connections : conn[c] = "closed" => c \notin Elems(active))
    /\ [](\A c \in bc.closed : c \notin Elems(bc.tried))
    /\ [][\A c \in Connections : conn[c] = "closed" => conn'[c] = "closed"]_vars

\* A broadcast that started after an observer's disconnect has gone through
\* the list and returned, and that observer had received an earlier event.
C12_Witness ==
    /\ req.pc = "returned"
    /\ Len(bc.tried) >= 1
    /\ \E c \in bc.closed : Len(inbox[c]) >= 1

\* The submitted messages that are empty or whitespace only.
BlankMessages == {"", "   "}

\* C13: a submission whose message is empty or whitespace is rejected, and the
\* rejecting step changes neither the store nor what is sent or received;
\* while it is rejected no send is started.
C13_BlankRejectedNoEffect ==
    /\ []((req.pc # "idle" /\ req.message \in BlankMessages) => req.pc = "rejected")
    /\ [](req.pc = "rejected" => ~ENABLED BroadcastNext)
    /\ [][req'.pc = "rejected" =>
            (store' = store /\ wire' = wire /\ inbox' = inbox /\ bc' = bc)]_vars

\* A whitespace-only message has been rejected while an observer is connected
\* and the store holds an earlier submission.
C13_Witness ==
    /\ req.pc = "rejected"
    /\ req.message = "   "
    /\ Len(active) >= 1
    /\ Len(store) >= 1

\* C14: when the store holds a record at startup, the startup path leaves the
\* store as it was and goes straight to serving: no payload is processed.
C14_NonEmptyStoreSkipsLoad ==
    /\ [][(phase = "boot" /\ Len(store) > 0) =>
            (store' = store /\ phase' = "serving" /\ out' = "skipping load")]_vars
    /\ [](out = "skipping load" => phase = "serving")

\* The process restarted on a store of two records and skipped the load.
C14_Witness ==
    /\ out = "skipping load"
    /\ phase = "serving"
    /\ Len(store) = 2

\* C15: no item of the bulk load aborts the load: from loading, the next step
\* is still loading or the orderly end of the load.
C15_MalformedItemSkipped ==
    [][phase = "loading" => phase' \in {"loading", "serving"}]_vars

\* C16: the document a message-creation event is stored in has the event's own
\* "to" when it carries one, else the change's default number when there is
\* one, else what the store had for it (absent for a new document).
C16_ToBackfilled ==
    \A msg \in MsgEvents, biz \in BusinessNumbers :
        msg.id # AbsentId =>
            LET after == UpsertMsg(store, msg, biz)
                d == after[FirstMatch(after, msg.id)]
            IN d.to = IF msg.to # Absent THEN msg.to
                      ELSE IF biz # Absent THEN biz
                      ELSE IF Matches(store, msg.id) = {} THEN Absent
                      ELSE store[FirstMatch(store, msg.id)].to

\* In a change that advertises a default number, one stored message has the
\* default as "to" and another has kept its own.
C16_Witness ==
    /\ phase = "loading"
    /\ cur.messages
    /\ cur.biz = "A"
    /\ \E d \in Elems(store) : d.text # Absent /\ d.to = "A"
    /\ \E d \in Elems(store) : d.text # Absent /\ d.to = "B"

\* C18: a document that a message-creation event wrote, and that no status
\* event has touched, has status sent.
C18_MessageStoredAsSent ==
    \A d \in Elems(store) :
        (d.text # Absent /\ d.status \notin Statuses) => d.status = "sent"

\* C19: the timestamp a document has is never replaced by an older one.
C19_TimestampNeverBackwards ==
    [][\A i \in 1..Len(store) :
          store[i].timestamp # AbsentTs => store'[i].timestamp >= store[i].timestamp]_vars

\* C20: while the loader is in a change that has both a messages list and a
\* statuses list, the only changes to the store are upserts of message-creation
\* events, and no document's status changes.
C20_BothListsOnlyMessages ==
    [][(phase = "loading" /\ cur.messages /\ cur.statuses) =>
          /\ \/ store' = store
             \/ \E msg \in MsgEvents : store' = UpsertMsg(store, msg, cur.biz)
          /\ \A i \in 1..Len(store) : store'[i].status = store[i].status]_vars

\* The loader is in a change with both lists; the store holds a message that
\* has no status and a document that a status event wrote earlier.
C20_Witness ==
    /\ phase = "loading"
    /\ cur.messages /\ cur.statuses
    /\ \E d \in Elems(store) : d.text # Absent /\ d.status = Absent
    /\ \E d \in Elems(store) : d.status \in Statuses

\* C17: for every phone, the conversation returned holds each document whose
\* from or to is the phone exactly once and nothing else, in ascending order
\* of timestamp, a document without timestamp counting as the minimum.
C17_ConversationSorted ==
    \A p \in QueryPhones :
        LET c == get_conversation(store, p).conversation
        IN /\ \A d \in Elems(store) : Count(c, d) = IF d.from = p \/ d.to = p THEN 1 ELSE 0
           /\ Elems(c) \subseteq Elems(store)
           /\ \A i, j \in 1..Len(c) : i < j => c[i].timestamp <= c[j].timestamp
           /\ \A i, j \in 1..Len(c) :
                  (c[i].timestamp = AbsentTs /\ c[j].timestamp # AbsentTs) => i < j

\* The last response is the conversation of the store as it is: three records,
\* the first without timestamp, in another order than the store returned them,
\* while the store holds a record of neither side.
C17_Witness ==
    /\ resp.code = 200
    /\ resp = get_conversation(store, resp.phone)
    /\ Len(resp.conversation) >= 3
    /\ resp.conversation[1].timestamp = AbsentTs
    /\ resp.conversation[2].timestamp # AbsentTs
    /\ resp.conversation # find(store, resp.phone)
    /\ Len(store) > Len(resp.conversation)
====
